---- MODULE Spec2Model ----
(***************************************************************************)
(* Exact game-tree search of the repository's two solvers:                 *)
(*   - Solution.canIWin / Solution.minimax        (number-selection game,  *)
(*     alpha-beta minimax memoized by the used-integer bitmask);           *)
(*   - PlannedMinimaxStrategy                      (placement game, minimax *)
(*     memoized under the four rotations of the board).                    *)
(* The recursion of each solver is modelled as an explicit stack of        *)
(* frames; one action is one segment of straight-line code between two     *)
(* call/return points of minimax. The strategy's constructor is modelled   *)
(* a second time as one step (operator minimax), for what its caller sees: *)
(* self.result and the answers of action().                                *)
(***************************************************************************)
EXTENDS Integers, Sequences, FiniteSets, TLC

VARIABLES
    mode,                  \* which program runs: "number" (canIWin), "placement"
                           \* (the search of the strategy, step by step),
                           \* "strategy" (the strategy and its caller), "rotate"
    pc,                    \* position of the running program
    event,                 \* what the last step did (observation only)
    \* ---- Solution (464_Can_I_Win_AlphaBeta.py)
    maxChoosableInteger,   \* self.maxChoosableInteger
    desiredTotal,          \* self.desiredTotal
    allUsed,               \* self.allUsed
    dp,                    \* self.dp: <<>> is None, <<v>> is the value v
    nframes,               \* active minimax invocations, innermost last
    ncall,                 \* arguments of the minimax call being made
    nret,                  \* value returned by the last minimax call
    canIWinResult,         \* what canIWin returned: <<>> until it returns
    \* ---- PlannedMinimaxStrategy (PlannedStrategy.py)
    game,                  \* self.game
    dpMap,                 \* self.dpMap: the set of its items <<status, value>>
    frames,                \* active minimax invocations, innermost last
    pret,                  \* result of the last game.move / minimax call
    result,                \* self.result: <<>> until __init__ assigns it
    ugame,                 \* the caller's game object handed to action()
    actionOut,             \* outcome of the last action() call
    \* ---- rotate / similarStatus applied to an arbitrary board
    rotIn,
    rotOut

vars == <<mode, pc, event, maxChoosableInteger, desiredTotal, allUsed, dp, nframes,
          ncall, nret, canIWinResult, game, dpMap, frames, pret, result, ugame,
          actionOut, rotIn, rotOut>>

numVars == <<maxChoosableInteger, desiredTotal, allUsed, dp, nframes, ncall, nret,
             canIWinResult>>
boardVars == <<game, dpMap, frames, pret, result, ugame, actionOut>>
rotVars == <<rotIn, rotOut>>

\* ------------------------------------------------------------------------
\* Bounds of the model
\* ------------------------------------------------------------------------
\* largest maxChoosableInteger of the enumerated canIWin calls
MaxN == 5

\* largest desiredTotal of the enumerated canIWin calls (above 1+..+MaxN, so
\* that games nobody wins are included)
MaxT == 16

\* most moves the caller plays on its own game before it asks action()
MaxUserMoves == 3

\* largest board side and most occupied cells of the boards rotate is applied to
MaxRotSize == 3

MaxPieces == 3

\* most moves played before the strategy is constructed on a game in progress
MaxStartMoves == 2

\* ------------------------------------------------------------------------
\* Values
\* ------------------------------------------------------------------------
\* math.inf: only ever compared with game values by max and min
inf == 2

Max(a, b) == IF a >= b THEN a ELSE b

Min(a, b) == IF a <= b THEN a ELSE b

Last(s) == s[Len(s)]

Pop(s) == SubSeq(s, 1, Len(s) - 1)

ReplaceLast(s, f) == [s EXCEPT ![Len(s)] = f]

RECURSIVE Pow2(_)
Pow2(i) == IF i = 0 THEN 1 ELSE 2 * Pow2(i - 1)

\* status >> i & 1
Bit(status, i) == (status \div Pow2(i)) % 2

\* 1 << i | status
BitOr(status, i) == IF Bit(status, i) = 1 THEN status ELSE status + Pow2(i)

\* ------------------------------------------------------------------------
\* Solution.canIWin and Solution.minimax
\* ------------------------------------------------------------------------
\* the loop of canIWin that builds self.allUsed
RECURSIVE AllUsedUpTo(_)
AllUsedUpTo(n) == IF n = 0 THEN 0 ELSE BitOr(AllUsedUpTo(n - 1), n)

\* the window canIWin starts minimax with
RootAlphaSwapped == 1
RootAlpha == -1

RootBeta == 1

\* currentTotal + i >= self.desiredTotal
WinsNowStrict(currentTotal, i) == currentTotal + i > desiredTotal
WinsNow(currentTotal, i) == currentTotal + i >= desiredTotal

\* if self.dp[status] is not None
MemoMiss(status) == FALSE
Memoized(status) == dp[status] # <<>>

\* if status == self.allUsed
NoDrawCheck(status) == FALSE
IsAllUsed(status) == status = allUsed

NumIdle ==
    /\ maxChoosableInteger = 0 /\ desiredTotal = 0 /\ allUsed = 0
    /\ dp = <<>> /\ nframes = <<>> /\ ncall = <<>> /\ nret = <<>>
    /\ canIWinResult = <<>>

\* canIWin(n, t) up to the call self.minimax(0, 0, True, -1, 1)
CanIWinStart(n, t) ==
    /\ mode = "number"
    /\ pc = "call"
    /\ event = "start"
    /\ maxChoosableInteger = n
    /\ desiredTotal = t
    /\ allUsed = AllUsedUpTo(n)
    /\ dp = [s \in 0..AllUsedUpTo(n) |-> <<>>]
    /\ nframes = <<>>
    /\ ncall = <<[status |-> 0, currentTotal |-> 0, isMaxPlayer |-> TRUE,
                  alpha |-> RootAlpha, beta |-> RootBeta]>>
    /\ nret = <<>>
    /\ canIWinResult = <<>>

\* a step of canIWin leaves the other programs' state alone
NumOnly == UNCHANGED <<mode, boardVars, rotVars>>

\* minimax entered on a memoized status: return self.dp[status]
NMemoHit ==
    /\ NumOnly
    /\ mode = "number" /\ pc = "call"
    /\ Memoized(ncall[1].status)
    /\ nret' = dp[ncall[1].status]
    /\ ncall' = <<>>
    /\ pc' = "ret"
    /\ event' = "hit"
    /\ UNCHANGED <<maxChoosableInteger, desiredTotal, allUsed, dp, nframes,
                   canIWinResult>>

\* minimax entered with every integer used: return 0
NDraw ==
    /\ NumOnly
    /\ mode = "number" /\ pc = "call"
    /\ ~Memoized(ncall[1].status)
    /\ IsAllUsed(ncall[1].status)
    /\ nret' = <<0>>
    /\ ncall' = <<>>
    /\ pc' = "ret"
    /\ event' = "draw"
    /\ UNCHANGED <<maxChoosableInteger, desiredTotal, allUsed, dp, nframes,
                   canIWinResult>>

\* minimax entered otherwise: value = -inf or +inf, the loop starts at i = 1
NEnter ==
    /\ NumOnly
    /\ mode = "number" /\ pc = "call"
    /\ ~Memoized(ncall[1].status)
    /\ ~IsAllUsed(ncall[1].status)
    /\ nframes' = Append(nframes,
          [status |-> ncall[1].status, currentTotal |-> ncall[1].currentTotal,
           isMaxPlayer |-> ncall[1].isMaxPlayer,
           alpha |-> ncall[1].alpha, beta |-> ncall[1].beta,
           value |-> IF ncall[1].isMaxPlayer THEN -inf ELSE inf,
           i |-> 1])
    /\ ncall' = <<>>
    /\ pc' = "loop"
    /\ event' = "enter"
    /\ UNCHANGED <<maxChoosableInteger, desiredTotal, allUsed, dp, nret,
                   canIWinResult>>

\* loop head, integer i already used: next i
NSkip ==
    /\ NumOnly
    /\ mode = "number" /\ pc = "loop"
    /\ LET f == Last(nframes) IN
        /\ f.i <= maxChoosableInteger
        /\ Bit(f.status, f.i) = 1
        /\ nframes' = ReplaceLast(nframes, [f EXCEPT !.i = f.i + 1])
    /\ event' = "skip"
    /\ UNCHANGED <<pc, maxChoosableInteger, desiredTotal, allUsed, dp, ncall, nret,
                   canIWinResult>>

\* loop head, integer i reaches the total: self.dp[status] = 1 (or -1), return it
NShortcut ==
    /\ NumOnly
    /\ mode = "number" /\ pc = "loop"
    /\ LET f == Last(nframes)
           v == IF f.isMaxPlayer THEN 1 ELSE -1 IN
        /\ f.i <= maxChoosableInteger
        /\ Bit(f.status, f.i) = 0
        /\ WinsNow(f.currentTotal, f.i)
        /\ dp' = [dp EXCEPT ![f.status] = <<v>>]
        /\ nret' = <<v>>
        /\ nframes' = Pop(nframes)
    /\ pc' = "ret"
    /\ event' = "shortcut"
    /\ UNCHANGED <<maxChoosableInteger, desiredTotal, allUsed, ncall, canIWinResult>>

\* new_status = 1 << i | status, the status the recursive call is made on
NewStatusSame(status, i) == status
NewStatus(status, i) == BitOr(status, i)

\* loop head, integer i does not reach the total: call minimax on new_status
NRecurse ==
    /\ NumOnly
    /\ mode = "number" /\ pc = "loop"
    /\ LET f == Last(nframes) IN
        /\ f.i <= maxChoosableInteger
        /\ Bit(f.status, f.i) = 0
        /\ ~WinsNow(f.currentTotal, f.i)
        /\ ncall' = <<[status |-> NewStatus(f.status, f.i),
                       currentTotal |-> f.currentTotal + f.i,
                       isMaxPlayer |-> ~f.isMaxPlayer,
                       alpha |-> f.alpha, beta |-> f.beta]>>
    /\ pc' = "call"
    /\ event' = "recurse"
    /\ UNCHANGED <<maxChoosableInteger, desiredTotal, allUsed, dp, nframes, nret,
                   canIWinResult>>

\* the frame after the recursive call returned r: value, alpha and beta updated
AfterChildSwapped(f, r) ==
    IF f.isMaxPlayer
    THEN [f EXCEPT !.value = Min(f.value, r), !.alpha = Max(f.alpha, Min(f.value, r))]
    ELSE [f EXCEPT !.value = Max(f.value, r), !.beta = Min(f.beta, Max(f.value, r))]

AfterChild(f, r) ==
    IF f.isMaxPlayer
    THEN [f EXCEPT !.value = Max(f.value, r), !.alpha = Max(f.alpha, Max(f.value, r))]
    ELSE [f EXCEPT !.value = Min(f.value, r), !.beta = Min(f.beta, Min(f.value, r))]

\* the recursive call returned and alpha >= beta: store value, return it
NCutoff ==
    /\ NumOnly
    /\ mode = "number" /\ pc = "ret" /\ nframes # <<>>
    /\ LET g == AfterChild(Last(nframes), nret[1]) IN
        /\ g.alpha >= g.beta
        /\ dp' = [dp EXCEPT ![g.status] = <<g.value>>]
        /\ nret' = <<g.value>>
        /\ nframes' = Pop(nframes)
    /\ event' = "cutoff"
    /\ UNCHANGED <<pc, maxChoosableInteger, desiredTotal, allUsed, ncall,
                   canIWinResult>>

\* the recursive call returned and alpha < beta: next i
NContinue ==
    /\ NumOnly
    /\ mode = "number" /\ pc = "ret" /\ nframes # <<>>
    /\ LET g == AfterChild(Last(nframes), nret[1]) IN
        /\ ~(g.alpha >= g.beta)
        /\ nframes' = ReplaceLast(nframes, [g EXCEPT !.i = g.i + 1])
    /\ nret' = <<>>
    /\ pc' = "loop"
    /\ event' = "continue"
    /\ UNCHANGED <<maxChoosableInteger, desiredTotal, allUsed, dp, ncall,
                   canIWinResult>>

\* the loop is exhausted: store value, return it
NExhaust ==
    /\ NumOnly
    /\ mode = "number" /\ pc = "loop"
    /\ LET f == Last(nframes) IN
        /\ f.i > maxChoosableInteger
        /\ dp' = [dp EXCEPT ![f.status] = <<f.value>>]
        /\ nret' = <<f.value>>
        /\ nframes' = Pop(nframes)
    /\ pc' = "ret"
    /\ event' = "exhaust"
    /\ UNCHANGED <<maxChoosableInteger, desiredTotal, allUsed, ncall, canIWinResult>>

\* the root call returned to canIWin: return (value == 1)
NFinish ==
    /\ NumOnly
    /\ mode = "number" /\ pc = "ret" /\ nframes = <<>>
    /\ canIWinResult' = <<nret[1] = 1>>
    /\ pc' = "done"
    /\ event' = "finish"
    /\ UNCHANGED <<maxChoosableInteger, desiredTotal, allUsed, dp, nframes, ncall,
                   nret>>

NumNext ==
    \/ NMemoHit \/ NDraw \/ NEnter \/ NSkip \/ NShortcut \/ NRecurse
    \/ NCutoff \/ NContinue \/ NExhaust \/ NFinish

\* ------------------------------------------------------------------------
\* ConnectNGame: the game object PlannedMinimaxStrategy drives
\* ------------------------------------------------------------------------
PLAYER_A == 1

PLAYER_B == -1

AVAILABLE == 0

\* ConnectNGame(N, board_size): an empty board, PLAYER_A to move
NewGame(N, board_size) ==
    [N |-> N, board_size |-> board_size,
     board |-> [r \in 1..board_size |-> [c \in 1..board_size |-> AVAILABLE]],
     gameOver |-> FALSE, gameResult |-> <<>>, currentPlayer |-> PLAYER_A,
     remainingPosNum |-> board_size * board_size, actionStack |-> <<>>]

\* the cell at row r, column c, both counted from 0
Cell(board, r, c) == board[r + 1][c + 1]

\* game.getStatus(): the board as a tuple of row tuples
getStatus(g) == g.board

\* game.getAvailablePositions(): the empty cells in row-major order
RECURSIVE PositionsFrom(_, _)
PositionsFrom(g, k) ==
    IF k >= g.board_size * g.board_size THEN <<>>
    ELSE LET r == k \div g.board_size
             c == k % g.board_size
         IN  (IF Cell(g.board, r, c) = AVAILABLE THEN <<(<<r, c>>)>> ELSE <<>>)
                \o PositionsFrom(g, k + 1)

getAvailablePositions(g) == PositionsFrom(g, 0)

\* the number of cells of player p met in a row from (r, c), excluded, in
\* direction (dr, dc)
RECURSIVE Connected(_, _, _, _, _, _, _)
Connected(board, size, r, c, dr, dc, p) ==
    LET r1 == r + dr
        c1 == c + dc
    IN  IF r1 \in 0..(size - 1) /\ c1 \in 0..(size - 1) /\ Cell(board, r1, c1) = p
        THEN 1 + Connected(board, size, r1, c1, dr, dc, p)
        ELSE 0

\* the move at (r, c) completed N cells of its player in a row, column or diagonal
checkWin(board, size, N, r, c) ==
    \E d \in {<<0, 1>>, <<1, 0>>, <<1, 1>>, <<1, -1>>} :
        Connected(board, size, r, c, d[1], d[2], Cell(board, r, c))
          + Connected(board, size, r, c, -d[1], -d[2], Cell(board, r, c)) + 1 >= N

\* game.move(r, c): the game afterwards and the outcome returned, <<>> for None
Move(g, pos) ==
    LET b == [g.board EXCEPT ![pos[1] + 1][pos[2] + 1] = g.currentPlayer]
        g1 == [g EXCEPT !.board = b,
                        !.actionStack = Append(g.actionStack, pos),
                        !.remainingPosNum = g.remainingPosNum - 1]
    IN  IF checkWin(b, g.board_size, g.N, pos[1], pos[2])
        THEN [game |-> [g1 EXCEPT !.gameOver = TRUE,
                                  !.gameResult = <<g.currentPlayer>>],
              result |-> <<g.currentPlayer>>]
        ELSE IF g1.remainingPosNum = 0
        THEN [game |-> [g1 EXCEPT !.gameOver = TRUE, !.gameResult = <<0>>],
              result |-> <<0>>]
        ELSE [game |-> [g1 EXCEPT !.currentPlayer = -g.currentPlayer],
              result |-> <<>>]

\* game.undo(): the last move taken back, its player to move again
Undo(g) ==
    LET pos == Last(g.actionStack) IN
    [g EXCEPT !.board = [g.board EXCEPT ![pos[1] + 1][pos[2] + 1] = AVAILABLE],
              !.actionStack = Pop(g.actionStack),
              !.currentPlayer = Cell(g.board, pos[1], pos[2]),
              !.remainingPosNum = g.remainingPosNum + 1,
              !.gameOver = FALSE,
              !.gameResult = <<>>]

\* ------------------------------------------------------------------------
\* PlannedMinimaxStrategy
\* ------------------------------------------------------------------------
\* rotate(s): board[c][N-1-r] = s[r][c] for every r, c in range(N)
rotateTransposed(s) ==
    [i \in 1..Len(s) |-> [j \in 1..Len(s) |-> s[j][i]]]
rotate(s) ==
    [i \in 1..Len(s) |-> [j \in 1..Len(s) |-> s[Len(s) + 1 - j][i]]]

\* the loop of similarStatus: k more rotations, each appended
RECURSIVE RotationsFrom(_, _)
RotationsFrom(s, k) ==
    IF k = 0 THEN <<>> ELSE <<rotate(s)>> \o RotationsFrom(rotate(s), k - 1)

\* similarStatus(status)
similarStatusThree(status) == RotationsFrom(status, 3)
similarStatus(status) == RotationsFrom(status, 4)

\* what minimax can hand to updateDP
StoredValues == {-inf, -1, 0, 1, inf}

\* s in self.dpMap
HasKey(map, s) == \E v \in StoredValues : <<s, v>> \in map

\* self.dpMap[s], for a key s
Get(map, s) == CHOOSE v \in StoredValues : <<s, v>> \in map

\* self.dpMap[s] = value
Store(map, s, value) == {e \in map : e[1] # s} \cup {<<s, value>>}

\* the loop of updateDP over the states of `sims` from index k on
RECURSIVE UpdateFrom(_, _, _, _)
UpdateFrom(map, sims, k, value) ==
    IF k > Len(sims) THEN map
    ELSE UpdateFrom(IF HasKey(map, sims[k]) THEN map ELSE Store(map, sims[k], value),
                    sims, k + 1, value)

\* updateDP(status, result): the dpMap afterwards
updateDP(map, status, value) == UpdateFrom(map, similarStatus(status), 1, value)

\* the lookup that opens minimax: <<v>> for the first of similarStatus(status)
\* found in dpMap, <<>> when none is
LookupNever(map, status) == <<>>
Lookup(map, status) ==
    LET sims == similarStatus(status)
        hits == {k \in 1..Len(sims) : HasKey(map, sims[k])}
    IN  IF hits = {} THEN <<>>
        ELSE <<Get(map, sims[CHOOSE k \in hits : \A h \in hits : k <= h])>>

\* ret = max(ret, result) for PLAYER_A, min(ret, result) for PLAYER_B
Better(player, ret, r) == IF player = PLAYER_A THEN Max(ret, r) ELSE Min(ret, r)

\* if ret == 1 (PLAYER_A), if ret == -1 (PLAYER_B): return early
ExitsEarlySwapped(player, ret) ==
    IF player = PLAYER_A THEN ret = -1 ELSE ret = 1
ExitsEarly(player, ret) ==
    IF player = PLAYER_A THEN ret = 1 ELSE ret = -1

\* the game after the statement game.undo() that follows every move of minimax
UndoUnlessExiting(g, player, ret, r) ==
    IF ExitsEarly(player, Better(player, ret, r)) THEN g ELSE Undo(g)
UndoAfterMove(g, player, ret, r) == Undo(g)

BoardOnly == UNCHANGED <<mode, numVars, rotVars>>

\* `if result is None`, on what game.move returned
RecursesAlways(r) == TRUE
IsNone(r) == r = <<>>

\* __init__ up to the call self.minimax(): the game copied, dpMap empty
StrategyStart(g) ==
    /\ mode = "placement"
    /\ pc = "call"
    /\ event = "start"
    /\ game = g
    /\ ugame = <<>>
    /\ dpMap = {}
    /\ frames = <<>>
    /\ pret = <<>>
    /\ result = <<>>
    /\ actionOut = <<>>

\* minimax entered on a state one of whose rotations is in dpMap: return it
PMemoHit ==
    /\ BoardOnly
    /\ mode = "placement" /\ pc = "call"
    /\ Lookup(dpMap, getStatus(game)) # <<>>
    /\ pret' = Lookup(dpMap, getStatus(game))
    /\ pc' = "ret"
    /\ event' = "hit"
    /\ UNCHANGED <<game, dpMap, frames, result, ugame, actionOut>>

\* minimax entered otherwise: assert not game.gameOver, ret = -inf or +inf,
\* the loop over game.getAvailablePositions() starts
PEnter ==
    /\ BoardOnly
    /\ mode = "placement" /\ pc = "call"
    /\ Lookup(dpMap, getStatus(game)) = <<>>
    /\ IF game.gameOver
       THEN /\ pc' = "AssertionError"
            /\ UNCHANGED frames
       ELSE /\ pc' = "loop"
            /\ frames' = Append(frames,
                  [thisState |-> getStatus(game), player |-> game.currentPlayer,
                   ret |-> IF game.currentPlayer = PLAYER_A THEN -inf ELSE inf,
                   bestMove |-> <<>>, positions |-> getAvailablePositions(game),
                   idx |-> 1,
                   entry |-> game])   \* the game as entered (observation only)
    /\ event' = "enter"
    /\ UNCHANGED <<game, dpMap, pret, result, ugame, actionOut>>

\* loop head with a position left: result = game.move(*pos); an outcome is
\* kept, None leads to assert not game.gameOver and the recursive call
PMove ==
    /\ BoardOnly
    /\ mode = "placement" /\ pc = "loop"
    /\ LET f == Last(frames) IN
        /\ f.idx <= Len(f.positions)
        /\ LET m == Move(game, f.positions[f.idx]) IN
            /\ game' = m.game
            /\ pret' = m.result
            /\ pc' = IF ~IsNone(m.result) THEN "moved"
                     ELSE IF m.game.gameOver THEN "AssertionError"
                     ELSE "call"
    /\ event' = "move"
    /\ UNCHANGED <<dpMap, frames, result, ugame, actionOut>>

\* the move's result is known (an outcome, or the recursive call returned):
\* game.undo(), ret and bestMove updated, then next position or early exit
PUndo ==
    /\ BoardOnly
    /\ mode = "placement" /\ pc \in {"moved", "ret"} /\ frames # <<>>
    /\ LET f == Last(frames)
           r == pret[1]
           ret == Better(f.player, f.ret, r)
           best == IF ret = r THEN f.positions[f.idx] ELSE f.bestMove
       IN
        /\ game' = UndoAfterMove(game, f.player, f.ret, r)
        /\ frames' = ReplaceLast(frames,
              [f EXCEPT !.ret = ret, !.bestMove = best, !.idx = f.idx + 1])
        /\ pc' = IF ExitsEarly(f.player, ret) THEN "exit" ELSE "loop"
    /\ pret' = <<>>
    /\ event' = "undo"
    /\ UNCHANGED <<dpMap, result, ugame, actionOut>>

\* early exit, or the positions are exhausted: updateDP(thisState, ret), return ret
PReturn ==
    /\ BoardOnly
    /\ mode = "placement"
    /\ frames # <<>>
    /\ \/ pc = "exit"
       \/ pc = "loop" /\ Last(frames).idx > Len(Last(frames).positions)
    /\ LET f == Last(frames) IN
        /\ dpMap' = updateDP(dpMap, f.thisState, f.ret)
        /\ pret' = <<f.ret>>
        /\ frames' = Pop(frames)
    /\ pc' = "ret"
    /\ event' = IF pc = "exit" THEN "exit" ELSE "exhaust"
    /\ UNCHANGED <<game, result, ugame, actionOut>>

\* the root call returned to __init__: self.result = its value
PFinish ==
    /\ BoardOnly
    /\ mode = "placement" /\ pc = "ret" /\ frames = <<>>
    /\ result' = pret
    /\ pc' = "done"
    /\ event' = "finish"
    /\ UNCHANGED <<game, dpMap, frames, pret, ugame, actionOut>>

\* result, _ = ...: a value unpacks into two names when it is a pair
Unpacks(v) == IF v \in Int THEN FALSE ELSE Len(v) = 2

\* the loop of action(game) from position k on: what it raises or returns, and
\* the caller's game afterwards
RECURSIVE ActionLoop(_, _, _, _, _, _)
ActionLoop(g, positions, k, player, ret, bestMove) ==
    IF k > Len(positions)
    THEN [exc |-> "none", value |-> ret, move |-> bestMove, game |-> g]
    ELSE LET g1 == Move(g, positions[k]).game IN
         IF ~HasKey(dpMap, getStatus(g1))
         THEN [exc |-> "KeyError", value |-> ret, move |-> bestMove, game |-> g1]
         ELSE IF ~Unpacks(Get(dpMap, getStatus(g1)))
         THEN [exc |-> "TypeError", value |-> ret, move |-> bestMove, game |-> g1]
         ELSE LET r == Get(dpMap, getStatus(g1))[1]
                  ret1 == Better(player, ret, r)
              IN  ActionLoop(Undo(g1), positions, k + 1, player, ret1,
                             IF ret1 = r THEN positions[k] ELSE bestMove)

\* action(game)
action(g) ==
    IF g.gameOver
    THEN [exc |-> "AssertionError", value |-> 0, move |-> <<>>, game |-> g]
    ELSE ActionLoop(g, getAvailablePositions(g), 1, g.currentPlayer,
                    IF g.currentPlayer = PLAYER_A THEN -inf ELSE inf, <<>>)

\* minimax() as one call: the value it returns, and the dpMap and the game it
\* leaves; exc names the assertion that failed on the way, if one did
RECURSIVE minimax(_, _), MinimaxLoop(_, _, _, _, _, _)
minimax(g, map) ==
    IF Lookup(map, getStatus(g)) # <<>>
    THEN [exc |-> "none", value |-> Lookup(map, getStatus(g))[1], map |-> map,
          game |-> g]
    ELSE IF g.gameOver
    THEN [exc |-> "AssertionError", value |-> 0, map |-> map, game |-> g]
    ELSE MinimaxLoop(g, map, getAvailablePositions(g), 1, getStatus(g),
                     IF g.currentPlayer = PLAYER_A THEN -inf ELSE inf)

\* what follows result = game.move(*pos) in the loop of minimax: `child` is
\* the move's outcome, or what the recursive call returned
AfterResult(child, ps, k, thisState, player, ret) ==
    IF child.exc # "none" THEN child
    ELSE IF ExitsEarly(player, Better(player, ret, child.value))
    THEN [exc |-> "none", value |-> Better(player, ret, child.value),
          map |-> updateDP(child.map, thisState, Better(player, ret, child.value)),
          game |-> UndoAfterMove(child.game, player, ret, child.value)]
    ELSE MinimaxLoop(UndoAfterMove(child.game, player, ret, child.value), child.map,
                     ps, k + 1, thisState, Better(player, ret, child.value))

\* the loop of minimax over the positions ps from index k on
MinimaxLoop(g, map, ps, k, thisState, ret) ==
    IF k > Len(ps)
    THEN [exc |-> "none", value |-> ret, map |-> updateDP(map, thisState, ret),
          game |-> g]
    ELSE AfterResult(
            IF ~IsNone(Move(g, ps[k]).result)
            THEN [exc |-> "none", value |-> Move(g, ps[k]).result[1], map |-> map,
                  game |-> Move(g, ps[k]).game]
            ELSE IF Move(g, ps[k]).game.gameOver
            THEN [exc |-> "AssertionError", value |-> 0, map |-> map,
                  game |-> Move(g, ps[k]).game]
            ELSE minimax(Move(g, ps[k]).game, map),
            ps, k, thisState, g.currentPlayer, ret)

\* the caller holds a new game and has not constructed the strategy yet
CallerStart(g) ==
    /\ mode = "strategy"
    /\ pc = "new"
    /\ event = "start"
    /\ ugame = g
    /\ game = <<>>
    /\ dpMap = {}
    /\ frames = <<>>
    /\ pret = <<>>
    /\ result = <<>>
    /\ actionOut = <<>>

\* PlannedMinimaxStrategy(game): the game copied, dpMap filled by minimax(),
\* self.result = its value
Construct ==
    /\ BoardOnly
    /\ mode = "strategy" /\ pc = "new"
    /\ \E run \in {minimax(ugame, {})} :
        /\ game' = run.game
        /\ dpMap' = run.map
        /\ result' = IF run.exc = "none" THEN <<run.value>> ELSE <<>>
        /\ pc' = IF run.exc = "none" THEN "done" ELSE run.exc
    /\ event' = "construct"
    /\ UNCHANGED <<frames, pret, ugame, actionOut>>

\* the caller plays a move on its own game object between two action() calls
UserMove ==
    /\ BoardOnly
    /\ mode = "strategy" /\ pc = "done"
    /\ ~ugame.gameOver
    /\ Len(ugame.actionStack) < MaxUserMoves
    /\ \E k \in 1..Len(getAvailablePositions(ugame)) :
          ugame' = Move(ugame, getAvailablePositions(ugame)[k]).game
    /\ event' = "usermove"
    /\ UNCHANGED <<pc, game, dpMap, frames, pret, result, actionOut>>

\* the caller asks strategy.action(game) for a move; an exception ends the run
UserAction ==
    /\ BoardOnly
    /\ mode = "strategy" /\ pc = "done"
    /\ \E out \in {action(ugame)} :
        /\ actionOut' = [exc |-> out.exc, value |-> out.value, move |-> out.move,
                         asked |-> ugame]
        /\ ugame' = out.game
        /\ pc' = IF out.exc = "none" THEN "done" ELSE "raised"
    /\ event' = "action"
    /\ UNCHANGED <<game, dpMap, frames, pret, result>>

BoardNext == PMemoHit \/ PEnter \/ PMove \/ PUndo \/ PReturn \/ PFinish

StrategyNext == Construct \/ UserMove \/ UserAction

BoardIdle ==
    /\ game = <<>> /\ dpMap = {} /\ frames = <<>> /\ pret = <<>> /\ result = <<>>
    /\ ugame = <<>> /\ actionOut = <<>>

RotIdle == rotIn = <<>> /\ rotOut = <<>>

\* the games the strategy is constructed on: <<N, board_size>>
Configs == {<<2, 2>>, <<2, 3>>, <<3, 3>>}

\* the games the strategy is also constructed on after some moves were played
StartConfigs == {<<2, 2>>, <<2, 3>>, <<3, 2>>}

InitBoard ==
    /\ \E c \in Configs : StrategyStart(NewGame(c[1], c[2]))
    /\ NumIdle /\ RotIdle

SpecBoard == InitBoard /\ [][BoardNext]_vars

InitStrategy ==
    /\ \E c \in Configs : CallerStart(NewGame(c[1], c[2]))
    /\ NumIdle /\ RotIdle

SpecStrategy == InitStrategy /\ [][StrategyNext]_vars

\* the games reached from g by at most k moves
RECURSIVE GamesAfter(_, _)
GamesAfter(g, k) ==
    IF k = 0 \/ g.gameOver THEN {g}
    ELSE {g} \cup UNION {GamesAfter(Move(g, getAvailablePositions(g)[j]).game, k - 1) :
                            j \in 1..Len(getAvailablePositions(g))}

\* the strategy constructed on a game in progress: on a game of StartConfigs
\* after at most MaxStartMoves moves that is not over, or on a new game of
\* Configs
InitMidGame ==
    /\ \/ \E c \in StartConfigs :
            \E g \in GamesAfter(NewGame(c[1], c[2]), MaxStartMoves) :
                ~g.gameOver /\ StrategyStart(g)
       \/ \E c \in Configs : StrategyStart(NewGame(c[1], c[2]))
    /\ NumIdle /\ RotIdle

SpecMidGame == InitMidGame /\ [][BoardNext]_vars

\* calls made besides the enumerated ones: the two end-to-end scenarios
\* canIWin(10, 11) and canIWin(4, 6), and canIWin(5, 50) of the script's main
Scenarios == {<<10, 11>>, <<4, 6>>, <<5, 50>>}

\* canIWin(n, t) for every n in 1..MaxN and t in 0..MaxT, and the scenarios
InitNum ==
    /\ \E c \in ((1..MaxN) \X (0..MaxT)) \cup Scenarios : CanIWinStart(c[1], c[2])
    /\ BoardIdle /\ RotIdle

SpecNum == InitNum /\ [][NumNext]_vars

\* ------------------------------------------------------------------------
\* rotate and similarStatus on an arbitrary board
\* ------------------------------------------------------------------------
\* the board of side `size` whose cells `cells` hold the players `who` gives them
BoardOf(size, cells, who) ==
    [r \in 1..size |-> [c \in 1..size |->
        IF <<r, c>> \in cells THEN who[<<r, c>>] ELSE AVAILABLE]]

InitRot ==
    /\ mode = "rotate" /\ pc = "call" /\ event = "start"
    /\ \E size \in 1..MaxRotSize :
         \E cells \in SUBSET ((1..size) \X (1..size)) :
            /\ Cardinality(cells) <= MaxPieces
            /\ \E who \in [cells -> {PLAYER_A, PLAYER_B}] :
                  rotIn = BoardOf(size, cells, who)
    /\ rotOut = <<>>
    /\ NumIdle /\ BoardIdle

\* similarStatus(rotIn)
RotApply ==
    /\ mode = "rotate" /\ pc = "call"
    /\ rotOut' = similarStatus(rotIn)
    /\ pc' = "done"
    /\ event' = "rotated"
    /\ UNCHANGED <<mode, numVars, boardVars, rotIn>>

SpecRot == InitRot /\ [][RotApply]_vars

\* ------------------------------------------------------------------------
\* The two searches, step by step
\* ------------------------------------------------------------------------
Init == InitNum \/ InitBoard

Next ==
    \/ NMemoHit \/ NDraw \/ NEnter \/ NSkip \/ NShortcut \/ NRecurse
    \/ NCutoff \/ NContinue \/ NExhaust \/ NFinish
    \/ PMemoHit \/ PEnter \/ PMove \/ PUndo \/ PReturn \/ PFinish

Spec == Init /\ [][Next]_vars

\* the games of the runs that are followed to their end, <<N, board_size>>;
\* with N = 3 on the 2x2 board nobody connects and every game fills the board
FairConfigs == {<<2, 2>>, <<2, 3>>, <<3, 2>>}

InitFair ==
    \/ InitNum
    \/ /\ \E c \in FairConfigs : StrategyStart(NewGame(c[1], c[2]))
       /\ NumIdle /\ RotIdle

\* the two searches run to their end: both programs are single-threaded and
\* run without suspension, so a step that can be taken is taken
FairSpec == InitFair /\ [][Next]_vars /\ WF_vars(Next)

\* ------------------------------------------------------------------------
\* Claims about the number-selection game
\* ------------------------------------------------------------------------
\* The rules of the game, solved by minimax with neither pruning nor memo:
\* the value, for the first player, of the position where the integers of
\* `used` are taken, their sum is `total`, and maxToMove tells who moves.
RECURSIVE PlainValue(_, _, _)
PlainValue(used, total, maxToMove) ==
    LET free == (1..maxChoosableInteger) \ used
        child(i) == IF total + i >= desiredTotal
                    THEN (IF maxToMove THEN 1 ELSE -1)
                    ELSE PlainValue(used \cup {i}, total + i, ~maxToMove)
        vals == {child(i) : i \in free}
    IN  IF free = {} THEN 0
        ELSE IF maxToMove THEN CHOOSE v \in vals : \A w \in vals : w <= v
        ELSE CHOOSE v \in vals : \A w \in vals : v <= w

\* C1: canIWin(n, t) returns True exactly when plain exhaustive minimax gives
\* the empty start position the value +1, and the root minimax call returns
\* that value: pruning and memoization do not change the root value.
C1_PruningEquivalence ==
    (mode = "number" /\ pc = "done") =>
        /\ canIWinResult = <<PlainValue({}, 0, TRUE) = 1>>
        /\ nret = <<PlainValue({}, 0, TRUE)>>

\* a finished call that returned True on a game no two picks can end, with
\* memo entries written below the root
C1_Witness ==
    /\ mode = "number" /\ pc = "done"
    /\ canIWinResult = <<TRUE>>
    /\ desiredTotal > 2 * maxChoosableInteger
    /\ \E s \in DOMAIN dp : s # 0 /\ dp[s] # <<>>

\* C2 as stated: canIWin(10, 11) returns True, its root minimax call +1.
C2_Original ==
    (mode = "number" /\ pc = "done" /\ maxChoosableInteger = 10 /\ desiredTotal = 11)
        => (nret = <<1>> /\ canIWinResult = <<TRUE>>)

\* C2 amended: with maxChoosableInteger = 10 and desiredTotal = 11 the first
\* player cannot force a win: the root call minimax(0, 0, True, -1, 1)
\* returns -1 and canIWin(10, 11) returns False.
C2_SecondPlayerWins ==
    (mode = "number" /\ pc = "done" /\ maxChoosableInteger = 10 /\ desiredTotal = 11)
        => (nret = <<-1>> /\ canIWinResult = <<FALSE>>)

C2_Witness ==
    /\ mode = "number" /\ pc = "done"
    /\ maxChoosableInteger = 10 /\ desiredTotal = 11
    /\ canIWinResult # <<>>

\* ------------------------------------------------------------------------
\* Claims about the placement game
\* ------------------------------------------------------------------------
GameValues == {-1, 0, 1}

\* C3: on the 3x3 board with 3 in a row, the constructor started on the empty
\* board computes self.result = 0.
C3_TicTacToeDraw ==
    (mode \in {"placement", "strategy"} /\ pc = "done"
        /\ game.N = 3 /\ game.board_size = 3)
        => result = <<0>>

\* the constructor has returned on the empty 3x3 board, the game it searched
\* on left as it was
C3_Witness ==
    /\ mode = "strategy" /\ pc = "done"
    /\ result # <<>>
    /\ game = NewGame(3, 3)
    /\ ugame = NewGame(3, 3)

\* the statuses action(g) reads: one per available position of g
ChildStatus(g, pos) == getStatus(Move(g, pos).game)

\* C4: after the precomputation, action(state) on a non-terminal state finds
\* the status of every child in dpMap, raises nothing, and returns the max
\* (PLAYER_A) or min (PLAYER_B) of the children's stored values with a move
\* whose child has that value.
C4_ActionFromMemo ==
    (mode = "strategy" /\ actionOut # <<>> /\ ~actionOut.asked.gameOver) =>
        LET g == actionOut.asked
            ps == getAvailablePositions(g)
        IN  /\ \A k \in 1..Len(ps) : HasKey(dpMap, ChildStatus(g, ps[k]))
            /\ actionOut.exc = "none"
            /\ \E k \in 1..Len(ps) :
                  /\ actionOut.move = ps[k]
                  /\ Get(dpMap, ChildStatus(g, ps[k])) = actionOut.value
            /\ \A k \in 1..Len(ps) :
                  IF g.currentPlayer = PLAYER_A
                  THEN Get(dpMap, ChildStatus(g, ps[k])) <= actionOut.value
                  ELSE Get(dpMap, ChildStatus(g, ps[k])) >= actionOut.value

\* C5: when a minimax invocation returns, self.game (board, current player,
\* action stack and the rest of the object) is what it was when that
\* invocation was entered: every move made inside it has been undone, on the
\* memo hit, the early exits and the exhausted loop alike.
C5_UndoMatchesMove ==
    [][ /\ (mode = "placement" /\ Len(frames') < Len(frames))
            => game' = Last(frames).entry
        /\ (mode = "placement" /\ pc = "call" /\ pc' = "ret")
            => game' = game ]_vars

\* an inner invocation has just returned by the early exit
C5_Witness ==
    /\ mode = "placement" /\ pc = "ret" /\ event = "exit"
    /\ Len(frames) >= 2
    /\ Len(game.actionStack) = Len(frames)

\* the item e of `map` is there under the rotation of its key too, and the
\* lookup that opens minimax finds its value from that rotation. (Closure
\* under one rotation is closure under two and three: apply it to the
\* rotated key.)
RotationClosed(map, e) ==
    /\ <<rotate(e[1]), e[2]>> \in map
    /\ Lookup(map, rotate(e[1])) = <<e[2]>>

\* C6: in every state of the search dpMap is closed under rotation with equal
\* values, so minimax on a rotation of a solved state returns the same value:
\* dpMap starts empty, every step keeps the items it holds, and the items a
\* step adds are closed under rotation in the dpMap it leaves.
C6_RotationClosed ==
    /\ (mode = "placement" => dpMap = {})
    /\ [][(mode = "placement" /\ dpMap' # dpMap) =>
              /\ dpMap \subseteq dpMap'
              /\ \A e \in dpMap' \ dpMap : RotationClosed(dpMap', e)]_vars

\* a solved state that differs from its rotations, all four stored alike
C6_Witness ==
    /\ mode = "placement"
    /\ \E e \in dpMap :
          /\ Cardinality({similarStatus(e[1])[k] : k \in 1..4}) = 4
          /\ \A k \in 1..4 : <<similarStatus(e[1])[k], e[2]>> \in dpMap

\* ------------------------------------------------------------------------
\* Claims about both games
\* ------------------------------------------------------------------------
\* every active invocation works on a state that has no memo entry yet
ActiveUnsolved ==
    /\ \A k \in 1..Len(nframes) : dp[nframes[k].status] = <<>>
    /\ \A k \in 1..Len(frames) : ~HasKey(dpMap, frames[k].thisState)

\* a step changes no entry that is set
EntriesKept ==
    /\ \A s \in DOMAIN dp : (s \in DOMAIN dp' /\ dp[s] # <<>>) => dp'[s] = dp[s]
    /\ dpMap' = dpMap \/ dpMap \subseteq dpMap'
    /\ dpMap' # dpMap =>
          \A e \in dpMap' \ dpMap : \A v \in StoredValues \ {e[2]} : <<e[1], v>> \notin dpMap'

\* C7: a memo entry is written at most once and never changes: the status of
\* an invocation that will store has no entry until it stores, no step
\* changes or removes an entry of dp or dpMap that is set, and no step gives a
\* dpMap key a second value.
C7_MemoWrittenOnce == [](ActiveUnsolved) /\ [][EntriesKept]_vars

\* a status stored by the alpha-beta cutoff while outer invocations are active
C7_Witness ==
    /\ mode = "number" /\ event = "cutoff"
    /\ nframes # <<>>
    /\ \E s \in DOMAIN dp : s # 0 /\ dp[s] = nret

Optional(S) == {<<>>} \cup {<<v>> : v \in S}

\* C8: every value minimax returns and every value stored in dp or dpMap is
\* -1, 0 or +1, in both games.
C8_ValueRange ==
    /\ nret \in Optional(GameValues)
    /\ pret \in Optional(GameValues)
    /\ result \in Optional(GameValues)
    /\ \A s \in DOMAIN dp : dp[s] = <<>> \/ dp[s][1] \in GameValues
    /\ \A e \in dpMap : e[2] \in GameValues

\* the call on the status with every integer used has returned 0 to an
\* invocation whose value was still the initial extremum
C8_Witness ==
    /\ mode = "number" /\ pc = "ret" /\ event = "draw"
    /\ nret = <<0>>
    /\ nframes # <<>> /\ Last(nframes).value \in {inf, -inf}

\* C9: rotate moves the content of cell (r, c) to cell (c, N-1-r); four
\* rotations give the board back; similarStatus(s) is the four rotations of
\* s, the fourth being s.
C9_QuadrupleRotation ==
    mode = "rotate" =>
        LET N == Len(rotIn) IN
        /\ \A r \in 0..(N - 1), c \in 0..(N - 1) :
              Cell(rotate(rotIn), c, N - 1 - r) = Cell(rotIn, r, c)
        /\ rotate(rotate(rotate(rotate(rotIn)))) = rotIn
        /\ pc = "done" =>
              /\ Len(rotOut) = 4
              /\ rotOut[4] = rotIn
              /\ rotOut[1] = rotate(rotIn)
              /\ rotOut[2] = rotate(rotate(rotIn))
              /\ rotOut[3] = rotate(rotate(rotate(rotIn)))

\* similarStatus has run on a board whose four rotations are all different
C9_Witness ==
    /\ mode = "rotate" /\ pc = "done"
    /\ Cardinality({rotOut[k] : k \in 1..4}) = 4

\* the rotations of the state minimax is entered on that are keys of dpMap
SolvedRotations ==
    {s \in {similarStatus(getStatus(game))[k] : k \in 1..4} : HasKey(dpMap, s)}

\* C10: minimax entered on a state that is solved, or a rotation of which is,
\* returns the stored value and makes no move, no undo, no recursive call and
\* no dpMap write; minimax of the number game entered on a status whose dp
\* entry is set returns that entry with no recursive call and no dp write.
C10_MemoHitIsPure ==
    [][ /\ (mode = "placement" /\ pc = "call" /\ SolvedRotations # {}) =>
              /\ pc' = "ret"
              /\ \A s \in SolvedRotations : pret' = <<Get(dpMap, s)>>
              /\ game' = game /\ dpMap' = dpMap /\ frames' = frames
        /\ (mode = "number" /\ pc = "call" /\ dp[ncall[1].status] # <<>>) =>
              /\ pc' = "ret"
              /\ nret' = dp[ncall[1].status]
              /\ dp' = dp /\ nframes' = nframes /\ ncall' = <<>> ]_vars

\* minimax has just returned from the memo on a state that was solved as a
\* rotation of another one
C10_Witness ==
    /\ mode = "placement" /\ pc = "ret" /\ event = "hit"
    /\ <<getStatus(game), pret[1]>> \in dpMap
    /\ Len(frames) >= 2

\* ------------------------------------------------------------------------
\* Termination
\* ------------------------------------------------------------------------
\* the number of integers used in status
UsedCount(status) == Cardinality({i \in 1..maxChoosableInteger : Bit(status, i) = 1})

\* the number of occupied cells of a board status
OccupiedCount(s) ==
    Cardinality({p \in (1..Len(s)) \X (1..Len(s)) : s[p[1]][p[2]] # AVAILABLE})

\* the minimax invocations that are active: the frames, and the call being made
ActiveCalls ==
    IF mode = "number" THEN Len(nframes) + Len(ncall)
    ELSE Len(frames) + (IF pc = "call" THEN 1 ELSE 0)

\* every recursive call is made on a state with one more integer used, or one
\* more cell occupied, than the state of its caller
CallsDescend ==
    /\ \A k \in 1..(Len(nframes) - 1) :
          UsedCount(nframes[k + 1].status) = UsedCount(nframes[k].status) + 1
    /\ (ncall # <<>> /\ nframes # <<>>) =>
          UsedCount(ncall[1].status) = UsedCount(Last(nframes).status) + 1
    /\ \A k \in 1..(Len(frames) - 1) :
          OccupiedCount(frames[k + 1].thisState) = OccupiedCount(frames[k].thisState) + 1
    /\ (mode = "placement" /\ pc = "call" /\ frames # <<>>) =>
          OccupiedCount(getStatus(game)) = OccupiedCount(Last(frames).thisState) + 1

\* the recursive calls nested below the root call are at most
\* maxChoosableInteger, respectively the number of cells
DepthBounded ==
    /\ mode = "number" => ActiveCalls - 1 <= maxChoosableInteger
    /\ mode = "placement" => ActiveCalls - 1 <= game.board_size * game.board_size

\* C11: every canIWin call and every construction of the strategy completes;
\* each recursive minimax call is on a state with one more used integer (one
\* more occupied cell) than its caller's, and the depth of the recursion
\* below the root call never exceeds maxChoosableInteger (the number of
\* cells).
C11_Termination ==
    /\ [](CallsDescend /\ DepthBounded)
    /\ <>(pc = "done")

\* the recursion at its deepest: maxChoosableInteger recursive calls are
\* nested, the innermost made on the status with every integer used
C11_Witness ==
    /\ mode = "number" /\ pc = "call"
    /\ maxChoosableInteger >= 3
    /\ ActiveCalls - 1 = maxChoosableInteger
    /\ IsAllUsed(ncall[1].status)

\* ------------------------------------------------------------------------
\* Assertions of the placement search
\* ------------------------------------------------------------------------
\* no assertion failed, minimax is being entered on a game that is not over,
\* and every state whose positions are iterated has a position
SearchSound ==
    /\ pc # "AssertionError"
    /\ pc = "call" => ~game.gameOver
    /\ \A k \in 1..Len(frames) :
          /\ Len(frames[k].positions) >= 1
          /\ ~frames[k].entry.gameOver

\* after game.move: an outcome is never followed by the recursive call, and
\* None never comes with gameOver set
MoveThenCall ==
    event' = "move" =>
        /\ pret' # <<>> => pc' = "moved" /\ game'.gameOver
        /\ pret' = <<>> => pc' = "call" /\ ~game'.gameOver

UsedIn(status) == {i \in 1..maxChoosableInteger : Bit(status, i) = 1}

RECURSIVE SumOf(_)
SumOf(S) == IF S = {} THEN 0 ELSE LET i == CHOOSE j \in S : TRUE IN i + SumOf(S \ {i})

\* the value of status by plain minimax: the first player moves when the
\* number of used integers is even, the running total is their sum
ExactValue(status) ==
    PlainValue(UsedIn(status), SumOf(UsedIn(status)),
               Cardinality(UsedIn(status)) % 2 = 0)

\* C13: at every moment of a canIWin call every entry of dp that is set is
\* the exact plain-minimax value of its status, whichever of the shortcut,
\* the cutoff or the exhausted loop wrote it and whatever alpha and beta were.
C13_MemoExact ==
    mode = "number" =>
        \A s \in DOMAIN dp : dp[s] # <<>> => dp[s] = <<ExactValue(s)>>

\* an entry just written by a cutoff under a narrowed window: a minimizing
\* call entered with alpha = 0 stored 0
C13_Witness ==
    /\ mode = "number" /\ event = "cutoff"
    /\ nret = <<0>>
    /\ \E s \in DOMAIN dp : s # 0 /\ dp[s] = <<0>> /\ Cardinality(UsedIn(s)) % 2 = 1
====
